---- MODULE Spec2Model ----
(***************************************************************************)
(* Model of the Bitcoin-style transaction codec of src/src/lib.rs:         *)
(* CompactSize, OutPoint, Script, TransactionInput and BitcoinTransaction, *)
(* their to_bytes encoders and their cursor-based from_bytes decoders.     *)
(*                                                                         *)
(* Bytes are the integers 0..255.  The wide integers of the program (u16,  *)
(* u32, u64, usize) are kept at their full width as little-endian          *)
(* sequences of 16-bit limbs (1, 2, 4 and 2-or-4 limbs), because the       *)
(* boundary values of the format (0xFFFFFFFF, 2^64-1) do not fit the       *)
(* integers of TLC.  Lengths of buffers are small naturals.                *)
(***************************************************************************)
EXTENDS Integers, Sequences, FiniteSets, TLC

(***************************************************************************)
(* Fixed-width unsigned arithmetic on limbs                                *)
(***************************************************************************)
LimbBase == 256 * 256

Fill(n, b) == [i \in 1..n |-> b]

\* n as an unsigned integer of w limbs (n is a buffer length, below 2^31)
NatToU(n, w) == [i \in 1..w |-> IF i = 1 THEN n % LimbBase
                                ELSE IF i = 2 THEN n \div LimbBase ELSE 0]

\* `x as uN`: keep the low w limbs (truncation) or zero-extend to w limbs
AsWidth(v, w) == [i \in 1..w |-> IF i <= Len(v) THEN v[i] ELSE 0]

\* a < b on two unsigned integers of the same width
ULess(a, b) == \E i \in 1..Len(a) :
                  /\ a[i] < b[i]
                  /\ \A j \in (i+1)..Len(a) : a[j] = b[j]

ULessEq(a, b) == a = b \/ ULess(a, b)

\* the value of an unsigned integer known to fit a buffer length
UToNat(v) == v[1] + (IF Len(v) >= 2 THEN LimbBase * v[2] ELSE 0)

RECURSIVE Carry(_, _, _)
Carry(a, b, i) == IF i = 0 THEN 0
                  ELSE (a[i] + b[i] + Carry(a, b, i - 1)) \div LimbBase

\* a + b at the width of a and b: the wrapped sum and the overflow flag
UAdd(a, b) ==
  [value    |-> [i \in 1..Len(a) |-> (a[i] + b[i] + Carry(a, b, i - 1)) % LimbBase],
   overflow |-> Carry(a, b, Len(a)) = 1]

\* the bytes of an unsigned integer, most significant first
ToBeBytes(v) == [i \in 1..(2 * Len(v)) |->
                   IF i % 2 = 1 THEN v[Len(v) + 1 - ((i + 1) \div 2)] \div 256
                                ELSE v[Len(v) + 1 - (i \div 2)] % 256]

\* uN::to_le_bytes
ToLeBytes(v) == [i \in 1..(2 * Len(v)) |->
                   IF i % 2 = 1 THEN v[(i + 1) \div 2] % 256
                                ELSE v[i \div 2] \div 256]

\* uN::from_le_bytes
FromLeBytes(b) == [j \in 1..(Len(b) \div 2) |-> b[2 * j - 1] + 256 * b[2 * j]]

\* bytes[start..end] of a Rust slice (0-based, end exclusive)
Slice(bytes, start, end) == SubSeq(bytes, start + 1, end)

(***************************************************************************)
(* Results of the decoders: Ok((value, consumed)), Err(error) or a panic.  *)
(* slices records every range [start, end) the decoder indexes together    *)
(* with the length of the buffer it indexes.                               *)
(***************************************************************************)
Ok(v, n, s)   == [kind |-> "Ok", error |-> "", value |-> v, consumed |-> n, slices |-> s]
Err(e, s)     == [kind |-> "Err", error |-> e, value |-> <<>>, consumed |-> 0, slices |-> s]
Panic(s)      == [kind |-> "Panic", error |-> "", value |-> <<>>, consumed |-> 0, slices |-> s]
Range(a, b, n) == [start |-> a, end |-> b, len |-> n]
WithSlices(r, s) == [r EXCEPT !.slices = r.slices \cup s]

InsufficientBytes == "InsufficientBytes"

(***************************************************************************)
(* CompactSize                                                             *)
(***************************************************************************)
TagU16 == 253
TagU32 == 254
TagU64 == 255
MaxU16 == <<65535, 0, 0, 0>>
MaxU32 == <<65535, 65535, 0, 0>>

CompactSize(value) == [value |-> value]

\* the single-byte range taken one too far
CompactSizeToBytesOffByOne(self) ==
  IF ULessEq(self.value, NatToU(TagU16, 4)) THEN <<self.value[1] % 256>>
  ELSE IF ULessEq(self.value, MaxU16) THEN <<TagU16>> \o ToLeBytes(AsWidth(self.value, 1))
  ELSE IF ULessEq(self.value, MaxU32) THEN <<TagU32>> \o ToLeBytes(AsWidth(self.value, 2))
  ELSE <<TagU64>> \o ToLeBytes(self.value)

CompactSizeToBytes(self) ==
  IF ULess(self.value, NatToU(TagU16, 4)) THEN <<self.value[1] % 256>>
  ELSE IF ULessEq(self.value, MaxU16) THEN <<TagU16>> \o ToLeBytes(AsWidth(self.value, 1))
  ELSE IF ULessEq(self.value, MaxU32) THEN <<TagU32>> \o ToLeBytes(AsWidth(self.value, 2))
  ELSE <<TagU64>> \o ToLeBytes(self.value)

\* a truncated payload reported as InvalidFormat
CompactSizeFromBytesWrongError(bytes) ==
  LET n == Len(bytes) IN
  IF n = 0 THEN Err(InsufficientBytes, {})
  ELSE LET prefix == bytes[1]
           s0 == {Range(0, 1, n)}
       IN IF prefix < TagU16 THEN Ok(CompactSize(NatToU(prefix, 4)), 1, s0)
          ELSE IF prefix = TagU16 THEN
             IF n < 3 THEN Err("InvalidFormat", s0)
             ELSE Ok(CompactSize(AsWidth(FromLeBytes(Slice(bytes, 1, 3)), 4)), 3,
                     s0 \cup {Range(1, 3, n)})
          ELSE IF prefix = TagU32 THEN
             IF n < 5 THEN Err("InvalidFormat", s0)
             ELSE Ok(CompactSize(AsWidth(FromLeBytes(Slice(bytes, 1, 5)), 4)), 5,
                     s0 \cup {Range(1, 5, n)})
          ELSE
             IF n < 9 THEN Err("InvalidFormat", s0)
             ELSE Ok(CompactSize(FromLeBytes(Slice(bytes, 1, 9))), 9,
                     s0 \cup {Range(1, 9, n)})

\* a decoder that rejects the encodings that are not minimal
CompactSizeFromBytesCanonical(bytes) ==
  LET n == Len(bytes) IN
  IF n = 0 THEN Err(InsufficientBytes, {})
  ELSE LET prefix == bytes[1]
           s0 == {Range(0, 1, n)}
       IN IF prefix < TagU16 THEN Ok(CompactSize(NatToU(prefix, 4)), 1, s0)
          ELSE IF prefix = TagU16 THEN
             IF n < 3 THEN Err(InsufficientBytes, s0)
             ELSE IF FromLeBytes(Slice(bytes, 1, 3))[1] < TagU16
                  THEN Err("InvalidFormat", s0)
             ELSE Ok(CompactSize(AsWidth(FromLeBytes(Slice(bytes, 1, 3)), 4)), 3,
                     s0 \cup {Range(1, 3, n)})
          ELSE IF prefix = TagU32 THEN
             IF n < 5 THEN Err(InsufficientBytes, s0)
             ELSE Ok(CompactSize(AsWidth(FromLeBytes(Slice(bytes, 1, 5)), 4)), 5,
                     s0 \cup {Range(1, 5, n)})
          ELSE
             IF n < 9 THEN Err(InsufficientBytes, s0)
             ELSE Ok(CompactSize(FromLeBytes(Slice(bytes, 1, 9))), 9,
                     s0 \cup {Range(1, 9, n)})

CompactSizeFromBytes(bytes) ==
  LET n == Len(bytes) IN
  IF n = 0 THEN Err(InsufficientBytes, {})
  ELSE LET prefix == bytes[1]
           s0 == {Range(0, 1, n)}
       IN IF prefix < TagU16 THEN Ok(CompactSize(NatToU(prefix, 4)), 1, s0)
          ELSE IF prefix = TagU16 THEN
             IF n < 3 THEN Err(InsufficientBytes, s0)
             ELSE Ok(CompactSize(AsWidth(FromLeBytes(Slice(bytes, 1, 3)), 4)), 3,
                     s0 \cup {Range(1, 3, n)})
          ELSE IF prefix = TagU32 THEN
             IF n < 5 THEN Err(InsufficientBytes, s0)
             ELSE Ok(CompactSize(AsWidth(FromLeBytes(Slice(bytes, 1, 5)), 4)), 5,
                     s0 \cup {Range(1, 5, n)})
          ELSE
             IF n < 9 THEN Err(InsufficientBytes, s0)
             ELSE Ok(CompactSize(FromLeBytes(Slice(bytes, 1, 9))), 9,
                     s0 \cup {Range(1, 9, n)})

(***************************************************************************)
(* OutPoint                                                                *)
(***************************************************************************)
TxidLen == 32
OutPointLen == 36

OutPoint(txid, vout) == [txid |-> txid, vout |-> vout]

OutPointToBytes(self) == self.txid \o ToLeBytes(self.vout)

OutPointFromBytes(bytes) ==
  LET n == Len(bytes) IN
  IF n < OutPointLen THEN Err(InsufficientBytes, {})
  ELSE Ok(OutPoint(Slice(bytes, 0, TxidLen),
                   FromLeBytes(Slice(bytes, TxidLen, OutPointLen))),
          OutPointLen,
          {Range(0, TxidLen, n), Range(TxidLen, OutPointLen, n)})

(***************************************************************************)
(* The build: arithmetic overflow of usize panics when overflow checks are *)
(* compiled in and wraps otherwise; usize has the target's pointer width.  *)
(***************************************************************************)
Targets == [overflow_checks : BOOLEAN, pointer_width : {32, 64}]

UsizeLimbs(target) == target.pointer_width \div 16

(***************************************************************************)
(* Script                                                                  *)
(***************************************************************************)
Script(bytes) == [bytes |-> bytes]

ScriptToBytes(self) ==
  CompactSizeToBytes(CompactSize(NatToU(Len(self.bytes), 4))) \o self.bytes

ScriptFromBytes(bytes, target) ==
  LET n  == Len(bytes)
      cs == CompactSizeFromBytes(bytes)
  IN IF cs.kind # "Ok" THEN cs
     ELSE LET w          == UsizeLimbs(target)
              size_len   == cs.consumed
              script_len == AsWidth(cs.value.value, w)
              sum        == UAdd(NatToU(size_len, w), script_len)
          IN IF sum.overflow /\ target.overflow_checks THEN Panic(cs.slices)
             ELSE IF ULess(NatToU(n, w), sum.value)
                  THEN Err(InsufficientBytes, cs.slices)
             ELSE LET end == UToNat(sum.value)
                      s   == cs.slices \cup {Range(size_len, end, n)}
                  IN IF size_len > end THEN Panic(s)
                     ELSE Ok(Script(Slice(bytes, size_len, end)), end, s)

(***************************************************************************)
(* TransactionInput                                                        *)
(***************************************************************************)
SequenceLen == 4

TransactionInput(previous_output, script_sig, sequence) ==
  [previous_output |-> previous_output, script_sig |-> script_sig,
   sequence |-> sequence]

\* an encoder that leaves the sequence out
TransactionInputToBytesNoSequence(self) ==
  OutPointToBytes(self.previous_output) \o ScriptToBytes(self.script_sig)

TransactionInputToBytes(self) ==
  OutPointToBytes(self.previous_output) \o ScriptToBytes(self.script_sig)
    \o ToLeBytes(self.sequence)

TransactionInputFromBytes(bytes, target) ==
  LET n  == Len(bytes)
      po == OutPointFromBytes(bytes)
  IN IF po.kind # "Ok" THEN po
     ELSE LET prev_out_len == po.consumed
              s1 == po.slices \cup {Range(prev_out_len, n, n)}
              ss == ScriptFromBytes(Slice(bytes, prev_out_len, n), target)
          IN IF ss.kind # "Ok" THEN WithSlices(ss, s1)
             ELSE LET sequence_start == prev_out_len + ss.consumed
                      s2 == s1 \cup ss.slices
                  IN IF n < sequence_start + SequenceLen
                     THEN Err(InsufficientBytes, s2)
                     ELSE Ok(TransactionInput(po.value, ss.value,
                                FromLeBytes(Slice(bytes, sequence_start,
                                                  sequence_start + SequenceLen))),
                             sequence_start + SequenceLen,
                             s2 \cup {Range(sequence_start,
                                            sequence_start + SequenceLen, n)})

(***************************************************************************)
(* BitcoinTransaction                                                      *)
(***************************************************************************)
VersionLen == 4
LockTimeLen == 4

BitcoinTransaction(version, inputs, lock_time) ==
  [version |-> version, inputs |-> inputs, lock_time |-> lock_time]

RECURSIVE ConcatInputs(_)
ConcatInputs(inputs) ==
  IF inputs = <<>> THEN <<>>
  ELSE TransactionInputToBytes(Head(inputs)) \o ConcatInputs(Tail(inputs))

BitcoinTransactionToBytes(self) ==
  ToLeBytes(self.version)
    \o CompactSizeToBytes(CompactSize(NatToU(Len(self.inputs), 4)))
    \o ConcatInputs(self.inputs)
    \o ToLeBytes(self.lock_time)

\* The locals of BitcoinTransaction::from_bytes and its position
TxStart ==
  [pc |-> "version", cursor |-> 0, version |-> NatToU(0, 2),
   input_count |-> CompactSize(NatToU(0, 4)), inputs |-> <<>>, slices |-> {},
   result |-> [kind |-> "None", error |-> "", value |-> <<>>, consumed |-> 0,
               slices |-> {}]]

TxReturn(st, r) == [st EXCEPT !.pc = "returned", !.result = r,
                              !.slices = st.slices \cup r.slices]

\* the length check and the read of version
TxReadVersion(st, bytes) ==
  LET n == Len(bytes) IN
  IF n < VersionLen THEN TxReturn(st, Err(InsufficientBytes, {}))
  ELSE [st EXCEPT !.pc = "input_count",
                  !.version = FromLeBytes(Slice(bytes, 0, VersionLen)),
                  !.slices = st.slices \cup {Range(0, VersionLen, n)}]

\* let (input_count, mut cursor) = CompactSize::from_bytes(&bytes[4..])?; cursor += 4
TxReadInputCount(st, bytes) ==
  LET n  == Len(bytes)
      s  == {Range(VersionLen, n, n)}
      cs == CompactSizeFromBytes(Slice(bytes, VersionLen, n))
  IN IF cs.kind # "Ok" THEN TxReturn(st, WithSlices(cs, s))
     ELSE [st EXCEPT !.pc = "inputs",
                     !.input_count = cs.value,
                     !.cursor = cs.consumed + VersionLen,
                     !.slices = st.slices \cup s \cup cs.slices]

\* the loop `for _ in 0..input_count.value` has run Len(st.inputs) times
TxMoreInputs(st) == ULess(NatToU(Len(st.inputs), 4), st.input_count.value)

\* an iteration that ends the loop on a failed input and keeps the others
TxDecodeInputBreak(st, bytes, target) ==
  LET n  == Len(bytes)
      s  == {Range(st.cursor, n, n)}
      ti == TransactionInputFromBytes(Slice(bytes, st.cursor, n), target)
  IN IF ti.kind # "Ok"
     THEN [st EXCEPT !.input_count = CompactSize(NatToU(Len(st.inputs), 4)),
                     !.slices = st.slices \cup s \cup ti.slices]
     ELSE [st EXCEPT !.inputs = Append(st.inputs, ti.value),
                     !.cursor = st.cursor + ti.consumed,
                     !.slices = st.slices \cup s \cup ti.slices]

\* one iteration of the loop
TxDecodeInput(st, bytes, target) ==
  LET n  == Len(bytes)
      s  == {Range(st.cursor, n, n)}
      ti == TransactionInputFromBytes(Slice(bytes, st.cursor, n), target)
  IN IF ti.kind # "Ok" THEN TxReturn(st, WithSlices(ti, s))
     ELSE [st EXCEPT !.inputs = Append(st.inputs, ti.value),
                     !.cursor = st.cursor + ti.consumed,
                     !.slices = st.slices \cup s \cup ti.slices]

\* a lock_time taken from the end of the buffer
TxReadLockTimeAtEnd(st, bytes) ==
  LET n == Len(bytes) IN
  IF n < st.cursor + LockTimeLen THEN TxReturn(st, Err(InsufficientBytes, {}))
  ELSE TxReturn([st EXCEPT !.cursor = n],
                Ok(BitcoinTransaction(st.version, st.inputs,
                      FromLeBytes(Slice(bytes, n - LockTimeLen, n))),
                   n,
                   {Range(n - LockTimeLen, n, n)}))

\* after the loop: the length check, the read of lock_time and the return
TxReadLockTime(st, bytes) ==
  LET n == Len(bytes) IN
  IF n < st.cursor + LockTimeLen THEN TxReturn(st, Err(InsufficientBytes, {}))
  ELSE TxReturn([st EXCEPT !.cursor = st.cursor + LockTimeLen],
                Ok(BitcoinTransaction(st.version, st.inputs,
                      FromLeBytes(Slice(bytes, st.cursor, st.cursor + LockTimeLen))),
                   st.cursor + LockTimeLen,
                   {Range(st.cursor, st.cursor + LockTimeLen, n)}))

TxStep(st, bytes, target) ==
  CASE st.pc = "version"     -> TxReadVersion(st, bytes)
    [] st.pc = "input_count" -> TxReadInputCount(st, bytes)
    [] st.pc = "inputs"      -> IF TxMoreInputs(st) THEN TxDecodeInput(st, bytes, target)
                                ELSE TxReadLockTime(st, bytes)
    [] OTHER                 -> st

RECURSIVE TxRun(_, _, _)
TxRun(st, bytes, target) ==
  IF st.pc = "returned" THEN st ELSE TxRun(TxStep(st, bytes, target), bytes, target)

\* BitcoinTransaction::from_bytes run to its return
BitcoinTransactionFromBytes(bytes, target) == TxRun(TxStart, bytes, target).result

(***************************************************************************)
(* The values and buffers the codec is applied to                          *)
(***************************************************************************)
MaxInputs == 2
MaxSuffix == 2

Levels == {"CompactSize", "OutPoint", "Script", "TransactionInput",
           "BitcoinTransaction"}

U64Samples ==
  {NatToU(0, 4), NatToU(252, 4), NatToU(253, 4), <<65535, 0, 0, 0>>,
   <<0, 1, 0, 0>>, <<65535, 65535, 0, 0>>, <<0, 0, 1, 0>>,
   <<65535, 65535, 65535, 65535>>,
   <<513, 0, 0, 0>>, <<513, 1027, 0, 0>>, <<513, 1027, 1541, 2055>>}

U32Samples == {<<0, 0>>, <<1, 0>>, <<513, 1027>>, <<65535, 65535>>}

TxidSamples == {[i \in 1..TxidLen |-> i - 1], [i \in 1..TxidLen |-> 256 - i]}

ScriptLens == {0, 1, 2, 252, 253}
ScriptBody(len, f) == [i \in 1..len |-> (f + i) % 256]
ScriptSamples == {Script(ScriptBody(l, f)) : l \in ScriptLens, f \in {0, 252}}

OutPointSamples == {OutPoint(t, v) : t \in TxidSamples, v \in U32Samples}

OutPointA == OutPoint([i \in 1..TxidLen |-> i - 1], <<513, 1027>>)
OutPointB == OutPoint([i \in 1..TxidLen |-> 256 - i], <<1, 0>>)

InputSamples ==
  {TransactionInput(OutPointA, sc, <<65535, 65535>>) : sc \in ScriptSamples}
    \cup {TransactionInput(OutPointB, sc, <<0, 0>>) : sc \in ScriptSamples}

TxInputSamples ==
  {TransactionInput(OutPointA, Script(<<>>), <<65535, 65535>>),
   TransactionInput(OutPointB, Script(ScriptBody(2, 252)), <<0, 0>>),
   TransactionInput(OutPointB, Script(ScriptBody(1, 0)), <<513, 1027>>)}

SeqsUpTo(S, n) == UNION {[1..k -> S] : k \in 0..n}

TxSamples ==
  {BitcoinTransaction(h[1], ins, h[2]) :
     h \in {<<NatToU(1, 2), NatToU(0, 2)>>, <<(<<513, 1027>>), (<<65535, 65535>>)>>},
     ins \in SeqsUpTo(TxInputSamples, MaxInputs)}

Samples(lv) ==
  CASE lv = "CompactSize"      -> {CompactSize(v) : v \in U64Samples}
    [] lv = "OutPoint"         -> OutPointSamples
    [] lv = "Script"           -> ScriptSamples
    [] lv = "TransactionInput" -> InputSamples
    [] OTHER                   -> TxSamples

\* forged length prefixes: non-minimal forms and lengths no buffer can hold
HostileLens ==
  {<<2>>,
   <<253, 5, 0>>,
   <<254, 255, 255, 255, 255>>,
   <<255>> \o Fill(8, 255),
   <<255, 247>> \o Fill(7, 255),
   <<255, 0, 0, 0, 0, 1, 0, 0, 0>>,
   <<255, 1, 0, 0, 0, 0, 0, 0, 0>>}

\* forged input counts
HostileCounts ==
  {<<0>>, <<1>>, <<2>>, <<3>>, <<253, 5, 0>>, <<255>> \o Fill(8, 255)}

SuffixSamples == UNION {[1..k -> {0, 255}] : k \in 1..MaxSuffix}

NotForged == [count |-> <<>>, script_at |-> 0, script_len |-> <<>>]

ToBytes(lv, v) ==
  CASE lv = "CompactSize"      -> CompactSizeToBytes(v)
    [] lv = "OutPoint"         -> OutPointToBytes(v)
    [] lv = "Script"           -> ScriptToBytes(v)
    [] lv = "TransactionInput" -> TransactionInputToBytes(v)
    [] OTHER                   -> BitcoinTransactionToBytes(v)

\* the wire form of a value with the forged length fields in place
WireScript(sc, len) == IF len = <<>> THEN ScriptToBytes(sc) ELSE len \o sc.bytes

WireInput(in, len) ==
  OutPointToBytes(in.previous_output) \o WireScript(in.script_sig, len)
    \o ToLeBytes(in.sequence)

RECURSIVE WireInputs(_, _, _)
WireInputs(ins, j, f) ==
  IF j > Len(ins) THEN <<>>
  ELSE WireInput(ins[j], IF f.script_at = j THEN f.script_len ELSE <<>>)
         \o WireInputs(ins, j + 1, f)

Wire(lv, v, f) ==
  CASE lv = "CompactSize"      -> IF f.count = <<>> THEN CompactSizeToBytes(v) ELSE f.count
    [] lv = "OutPoint"         -> OutPointToBytes(v)
    [] lv = "Script"           -> WireScript(v, f.script_len)
    [] lv = "TransactionInput" -> WireInput(v, f.script_len)
    [] OTHER                   ->
         ToLeBytes(v.version)
           \o (IF f.count = <<>>
               THEN CompactSizeToBytes(CompactSize(NatToU(Len(v.inputs), 4)))
               ELSE f.count)
           \o WireInputs(v.inputs, 1, f)
           \o ToLeBytes(v.lock_time)

\* the inputs of a value whose script length can be forged
ScriptSites(lv, v) ==
  CASE lv = "Script"             -> {1}
    [] lv = "TransactionInput"   -> {1}
    [] lv = "BitcoinTransaction" -> 1..Len(v.inputs)
    [] OTHER                     -> {}

(***************************************************************************)
(* State                                                                   *)
(***************************************************************************)
VARIABLES level, value, target, forged, shape, buf,
          pc, cursor, version, input_count, inputs, slices, result

vars == <<level, value, target, forged, shape, buf,
          pc, cursor, version, input_count, inputs, slices, result>>

env == <<level, value, target>>
dec == <<pc, cursor, version, input_count, inputs, slices, result>>

Init ==
  /\ level \in Levels
  /\ value \in Samples(level)
  /\ target \in Targets
  /\ forged = NotForged
  /\ shape = "exact"
  /\ buf = <<>>
  /\ pc = "new"
  /\ cursor = TxStart.cursor
  /\ version = TxStart.version
  /\ input_count = TxStart.input_count
  /\ inputs = TxStart.inputs
  /\ slices = TxStart.slices
  /\ result = TxStart.result

\* value.to_bytes()
Encode ==
  /\ pc = "new"
  /\ buf' = ToBytes(level, value)
  /\ pc' = "wire"
  /\ UNCHANGED <<env, forged, shape, cursor, version, input_count, inputs,
                 slices, result>>

\* a peer replaces the count (or, for a CompactSize, the whole encoding)
ForgeCount ==
  /\ pc = "wire" /\ shape = "exact"
  /\ level \in {"CompactSize", "BitcoinTransaction"}
  /\ forged.count = <<>>
  /\ \E h \in (IF level = "CompactSize" THEN HostileLens \cup HostileCounts
               ELSE HostileCounts) :
        /\ forged' = [forged EXCEPT !.count = h]
        /\ buf' = Wire(level, value, forged')
  /\ UNCHANGED <<env, shape, dec>>

\* a peer replaces the length prefix of one script
ForgeScript ==
  /\ pc = "wire" /\ shape = "exact"
  /\ forged.script_at = 0
  /\ \E j \in ScriptSites(level, value), h \in HostileLens :
        /\ forged' = [forged EXCEPT !.script_at = j, !.script_len = h]
        /\ buf' = Wire(level, value, forged')
  /\ UNCHANGED <<env, shape, dec>>

\* forged buffers of the two innermost levels are cut and extended as well
MayCut == forged = NotForged \/ level \in {"CompactSize", "Script"}

\* the buffer ends early
Truncate ==
  /\ pc = "wire" /\ shape = "exact" /\ MayCut
  /\ \E k \in 0..(Len(buf) - 1) : buf' = SubSeq(buf, 1, k)
  /\ shape' = "prefix"
  /\ UNCHANGED <<env, forged, dec>>

\* bytes follow the encoding
Extend ==
  /\ pc = "wire" /\ shape = "exact" /\ MayCut
  /\ \E s \in SuffixSamples : buf' = buf \o s
  /\ shape' = "extended"
  /\ UNCHANGED <<env, forged, dec>>

Return(r) ==
  /\ pc' = "returned"
  /\ result' = r
  /\ slices' = r.slices
  /\ UNCHANGED <<env, forged, shape, buf, cursor, version, input_count, inputs>>

DecodeCompactSize ==
  /\ pc = "wire" /\ level = "CompactSize"
  /\ Return(CompactSizeFromBytes(buf))

DecodeOutPoint ==
  /\ pc = "wire" /\ level = "OutPoint"
  /\ Return(OutPointFromBytes(buf))

DecodeScript ==
  /\ pc = "wire" /\ level = "Script"
  /\ Return(ScriptFromBytes(buf, target))

DecodeTransactionInput ==
  /\ pc = "wire" /\ level = "TransactionInput"
  /\ Return(TransactionInputFromBytes(buf, target))

\* the position and locals of BitcoinTransaction::from_bytes as one record
TxState ==
  [pc |-> pc, cursor |-> cursor, version |-> version, input_count |-> input_count,
   inputs |-> inputs, slices |-> slices, result |-> result]

TxGoto(st) ==
  /\ pc' = st.pc
  /\ cursor' = st.cursor
  /\ version' = st.version
  /\ input_count' = st.input_count
  /\ inputs' = st.inputs
  /\ slices' = st.slices
  /\ result' = st.result
  /\ UNCHANGED <<env, forged, shape, buf>>

TxVersion ==
  /\ pc = "wire" /\ level = "BitcoinTransaction"
  /\ TxGoto(TxReadVersion(TxState, buf))

TxInputCount ==
  /\ pc = "input_count"
  /\ TxGoto(TxReadInputCount(TxState, buf))

TxInput ==
  /\ pc = "inputs" /\ TxMoreInputs(TxState)
  /\ TxGoto(TxDecodeInput(TxState, buf, target))

TxLockTime ==
  /\ pc = "inputs" /\ ~TxMoreInputs(TxState)
  /\ TxGoto(TxReadLockTime(TxState, buf))

Next ==
  \/ Encode
  \/ ForgeCount
  \/ ForgeScript
  \/ Truncate
  \/ Extend
  \/ DecodeCompactSize
  \/ DecodeOutPoint
  \/ DecodeScript
  \/ DecodeTransactionInput
  \/ TxVersion
  \/ TxInputCount
  \/ TxInput
  \/ TxLockTime

Spec == Init /\ [][Next]_vars

(***************************************************************************)
(* Properties                                                              *)
(***************************************************************************)
Returned == pc = "returned"

\* the encoding of the value the buffer was made from
Encoding == ToBytes(level, value)

IsErr(r, e) == r.kind = "Err" /\ r.error = e
IsOk(r, v, n) == r.kind = "Ok" /\ r.value = v /\ r.consumed = n

\* byte k (from 0) of the little-endian form of an unsigned integer
ByteOf(v, k) == IF k % 2 = 0 THEN v[(k \div 2) + 1] % 256
                ELSE v[(k \div 2) + 1] \div 256

\* the width the CompactSize scheme prescribes for a small natural
VarIntLen(n) == IF n <= 252 THEN 1 ELSE IF n <= 65535 THEN 3 ELSE 5

\* the width a tag byte selects
TagWidth(b) == IF b <= 252 THEN 1 ELSE IF b = 253 THEN 3 ELSE IF b = 254 THEN 5 ELSE 9

\* the decoder of a level, run to its return
FromBytes(lv, bytes, t) ==
  CASE lv = "CompactSize"      -> CompactSizeFromBytes(bytes)
    [] lv = "OutPoint"         -> OutPointFromBytes(bytes)
    [] lv = "Script"           -> ScriptFromBytes(bytes, t)
    [] lv = "TransactionInput" -> TransactionInputFromBytes(bytes, t)
    [] OTHER                   -> BitcoinTransactionFromBytes(bytes, t)

SameOutcome(r1, r2) ==
  /\ r1.kind = r2.kind
  /\ r1.error = r2.error
  /\ r1.consumed = r2.consumed
  /\ r1.kind = "Ok" => r1.value = r2.value

\* C1: decoding the encoding of a transaction returns that transaction,
\* field for field and inputs in order, and the length of the encoding.
C1_RoundTrip ==
  (level = "BitcoinTransaction" /\ Returned
     /\ buf = BitcoinTransactionToBytes(value))
    => IsOk(result, value, Len(BitcoinTransactionToBytes(value)))

C1_Witness ==
  /\ level = "BitcoinTransaction" /\ Returned
  /\ buf = BitcoinTransactionToBytes(value)
  /\ Len(value.inputs) = 2 /\ value.inputs[1] # value.inputs[2]
  /\ result.kind = "Ok" /\ result.value.inputs = value.inputs

\* the prefix of a Script buffer declares more bytes than follow it
DeclaresTooMuch(bytes) ==
  LET cs == CompactSizeFromBytes(bytes) IN
    /\ cs.kind = "Ok"
    /\ ULess(NatToU(Len(bytes) - cs.consumed, 4), cs.value.value)

\* C2: Script::from_bytes returns Err(InsufficientBytes), without a panic and
\* without truncating the length, whenever the length prefix declares more
\* bytes than remain after it, for every declared length up to 2^64-1.
C2_OversizedLengthIsInsufficientBytes ==
  (level = "Script" /\ Returned /\ DeclaresTooMuch(buf))
    => IsErr(result, InsufficientBytes)

\* C3: at every level, decoding a strict prefix of the encoding of a value
\* (the empty prefix included) fails with InsufficientBytes.
C3_StrictPrefixFails ==
  (Returned /\ Len(buf) < Len(Encoding) /\ buf = SubSeq(Encoding, 1, Len(buf)))
    => IsErr(result, InsufficientBytes)

C3_Witness ==
  /\ level = "BitcoinTransaction" /\ Returned /\ shape = "prefix"
  /\ Len(value.inputs) = 2 /\ Len(inputs) = 1
  /\ buf = SubSeq(Encoding, 1, Len(buf))
  /\ IsErr(result, InsufficientBytes)

\* C4: the encoding of a u64 is not empty, has the width and the tag its
\* range prescribes (1, 3, 5 or 9 bytes; the value itself, 0xFD, 0xFE, 0xFF),
\* carries the value little-endian, and decodes to the value and that width.
C4_VarIntWidthAndRoundTrip ==
  (level = "CompactSize" /\ Returned /\ buf = CompactSizeToBytes(value))
    => LET v == value.value IN
       /\ Len(buf) >= 1
       /\ IF ULessEq(v, <<252, 0, 0, 0>>) THEN Len(buf) = 1 /\ buf[1] = v[1]
          ELSE IF ULessEq(v, <<65535, 0, 0, 0>>) THEN Len(buf) = 3 /\ buf[1] = 253
          ELSE IF ULessEq(v, <<65535, 65535, 0, 0>>) THEN Len(buf) = 5 /\ buf[1] = 254
          ELSE Len(buf) = 9 /\ buf[1] = 255
       /\ \A k \in 0..(Len(buf) - 2) : buf[k + 2] = ByteOf(v, k)
       /\ IsOk(result, value, Len(buf))

C4_Witness ==
  /\ level = "CompactSize" /\ Returned /\ buf = CompactSizeToBytes(value)
  /\ value.value = <<513, 1027, 1541, 2055>>
  /\ buf = <<255, 1, 2, 3, 4, 5, 6, 7, 8>>
  /\ IsOk(result, value, 9)

\* the input count on the wire
WireCount(bytes) == CompactSizeFromBytes(Slice(bytes, VersionLen, Len(bytes)))

\* the inputs ins[j..] are the inputs found on the wire from offset off on
RECURSIVE InWireOrder(_, _, _)
InWireOrder(ins, j, off) ==
  \/ j > Len(ins)
  \/ LET r == TransactionInputFromBytes(Slice(buf, off, Len(buf)), target) IN
       /\ r.kind = "Ok"
       /\ r.value = ins[j]
       /\ InWireOrder(ins, j + 1, off + r.consumed)

\* the input decode the loop is about to make
NextInput == TransactionInputFromBytes(Slice(buf, cursor, Len(buf)), target)

\* C5: a returned transaction has exactly the number of inputs the wire count
\* says, in wire order; each iteration decodes the next input and appends it;
\* when an input decode fails the decode returns that error at once and none
\* of the inputs already decoded.
C5_AllOrNothing ==
  /\ []((level = "BitcoinTransaction" /\ Returned /\ result.kind = "Ok")
          => /\ NatToU(Len(result.value.inputs), 4) = WireCount(buf).value.value
             /\ InWireOrder(result.value.inputs, 1,
                            VersionLen + WireCount(buf).consumed))
  /\ [][(pc = "inputs" /\ TxMoreInputs(TxState))
          => IF NextInput.kind = "Ok"
             THEN /\ pc' = "inputs"
                  /\ inputs' = Append(inputs, NextInput.value)
                  /\ cursor' = cursor + NextInput.consumed
             ELSE /\ pc' = "returned"
                  /\ result'.kind = NextInput.kind
                  /\ result'.error = NextInput.error
                  /\ result'.value = <<>>]_vars

C5_Witness ==
  /\ level = "BitcoinTransaction" /\ Returned
  /\ Len(inputs) = 1
  /\ WireCount(buf).kind = "Ok" /\ WireCount(buf).value.value = NatToU(2, 4)
  /\ IsErr(result, InsufficientBytes) /\ result.value = <<>>

\* the value the payload of a CompactSize buffer spells, little-endian
PayloadValue(bytes) ==
  LET w == TagWidth(bytes[1]) IN
  IF w = 1 THEN <<bytes[1], 0, 0, 0>>
  ELSE [i \in 1..4 |-> IF 2 * i + 1 <= w THEN bytes[2 * i] + 256 * bytes[2 * i + 1]
                       ELSE 0]

\* C6: CompactSize::from_bytes fails exactly when the buffer is shorter than
\* the width its first byte selects, then with InsufficientBytes; otherwise it
\* returns the little-endian payload and that width, minimal or not.
C6_VarIntFailsIffTruncated ==
  (level = "CompactSize" /\ Returned)
    => IF Len(buf) = 0 \/ Len(buf) < TagWidth(buf[1])
       THEN IsErr(result, InsufficientBytes)
       ELSE IsOk(result, CompactSize(PayloadValue(buf)), TagWidth(buf[1]))

C6_Witness ==
  /\ level = "CompactSize" /\ Returned
  /\ buf = <<253, 5, 0>>
  /\ IsOk(result, CompactSize(NatToU(5, 4)), 3)

RECURSIVE SumLen(_)
SumLen(ins) ==
  IF ins = <<>> THEN 0
  ELSE OutPointLen + VarIntLen(Len(Head(ins).script_sig.bytes))
         + Len(Head(ins).script_sig.bytes) + SequenceLen + SumLen(Tail(ins))

\* C7: an input with a script of s bytes encodes to 36 + len(VarInt(s)) + s + 4
\* bytes; a transaction of k inputs to 4 + len(VarInt(k)) + the sum over its
\* inputs + 4 bytes; a transaction without inputs to the 9 bytes version,
\* 0x00, lock_time.
C7_EncodedLength ==
  (pc = "wire" /\ buf = Encoding)
    => /\ level = "TransactionInput" => Len(buf) = SumLen(<<value>>)
       /\ level = "BitcoinTransaction"
            => /\ Len(buf) = 4 + VarIntLen(Len(value.inputs)) + SumLen(value.inputs) + 4
               /\ value.inputs = <<>>
                    => /\ Len(buf) = 9
                       /\ \A k \in 0..3 : buf[k + 1] = ByteOf(value.version, k)
                       /\ buf[5] = 0
                       /\ \A k \in 0..3 : buf[k + 6] = ByteOf(value.lock_time, k)

C7_Witness ==
  /\ level = "BitcoinTransaction" /\ pc = "wire" /\ buf = Encoding
  /\ Len(value.inputs) = 2
  /\ Len(value.inputs[1].script_sig.bytes) # Len(value.inputs[2].script_sig.bytes)
  /\ Len(buf) = 4 + 1 + SumLen(value.inputs) + 4

\* C8: every slice a decoder takes has start <= end <= the length of the
\* buffer handed to it, and the transaction cursor stays within the buffer and
\* never decreases.
C8_SlicesInBounds ==
  /\ [](level = "BitcoinTransaction"
          => /\ \A r \in slices : r.start <= r.end /\ r.end <= r.len
             /\ cursor <= Len(buf))
  /\ [][cursor' >= cursor]_vars

\* the wire count is more than the bytes after it can hold (41 bytes at least
\* for each input)
MinInputLen == OutPointLen + 1 + SequenceLen
CountUnsatisfiable(bytes) ==
  /\ Len(bytes) >= VersionLen
  /\ WireCount(bytes).kind = "Ok"
  /\ ULess(NatToU((Len(bytes) - VersionLen - WireCount(bytes).consumed) \div MinInputLen, 4),
           WireCount(bytes).value.value)

\* C9: with an input count the remaining bytes cannot satisfy the decode
\* returns Err(InsufficientBytes), after at most Len(buf) / 41 successful
\* iterations whatever the count.
C9_OversizedCountFails ==
  level = "BitcoinTransaction"
    => /\ Len(inputs) <= Len(buf) \div MinInputLen
       /\ (Returned /\ CountUnsatisfiable(buf)) => IsErr(result, InsufficientBytes)

\* C10: a successful decode consumed no more than the buffer, and decoding the
\* consumed bytes followed by any other bytes gives the same value and count;
\* so the encoding of a value followed by any bytes decodes to the value.
C10_TrailingBytesIgnored ==
  Returned
    => /\ result.kind = "Ok"
         => /\ result.consumed <= Len(buf)
            /\ \A s \in SuffixSamples \cup {<<>>} :
                 SameOutcome(FromBytes(level, SubSeq(buf, 1, result.consumed) \o s, target),
                             result)
       /\ (Len(buf) >= Len(Encoding) /\ SubSeq(buf, 1, Len(Encoding)) = Encoding)
         => IsOk(result, value, Len(Encoding))

C10_Witness ==
  /\ level = "BitcoinTransaction" /\ Returned /\ shape = "extended"
  /\ Len(value.inputs) = 2
  /\ Len(buf) > Len(Encoding)
  /\ IsOk(result, value, Len(Encoding))

====
